---- MODULE Spec2Model ----
(***************************************************************************)
(* Bit-serial conv2d (NHWC, no intrinsics) on arm_cpu:                     *)
(*   python/tvm/topi/arm_cpu/bitserial_conv2d_no_intrinsics.py             *)
(* The compute definition (shapes, channel padding, spatial padding,       *)
(* data_vec, the popcount accumulation, the narrowing output) and the loop *)
(* nest the schedule emits (tile splits, reorder candidate, compute_at,    *)
(* the parallel outer height tile) are modelled as a state machine: one    *)
(* problem instance and one configuration are drawn, the graph is built,   *)
(* and every parallel iteration then steps through its tiles.              *)
(***************************************************************************)
EXTENDS Integers, Sequences, FiniteSets, TLC

VARIABLES
    inst,   \* the problem instance: shapes, stride, padding, bit widths, inputs
    pc,     \* "new" -> "run" -> "done" (or "nocfg" when the space is empty)
    cfg,    \* the resolved configuration: tile_oh, tile_ow, tile_ci, reorder_0
    th,     \* per parallel iteration oh: its position in the loop nest, and
            \* red, the (vh, vw) reductions completed for its current tile
    kvec,   \* the kernel_vec buffer, flat
    dvec,   \* the data_vec buffer, flat
    acc,    \* per parallel iteration: the conv_vec tile it accumulates
    out,    \* the output tensor conv: (h, w, co) -> int16, None before the write
    nwr,    \* (h, w, co) -> the (oh, ow, co, vh, vw, vc) iterations that wrote it
    ovf     \* a summand, a partial sum or the final cast left its 16-bit type

vars == <<inst, pc, cfg, th, kvec, dvec, acc, out, nwr, ovf>>

None == "none"

(***************************************************************************)
(* Bounds of the model.                                                    *)
(***************************************************************************)
MaxBits == 2      \* activation_bits and weight_bits range over 1..MaxBits

(***************************************************************************)
(* The problem instances the model draws.                                  *)
(***************************************************************************)
Shape(H, W, CI, KH, KW, CO, HSTR, WSTR, TPAD, LPAD, DPAD, RPAD) ==
    [H |-> H, W |-> W, CI |-> CI, KH |-> KH, KW |-> KW, CO |-> CO,
     HSTR |-> HSTR, WSTR |-> WSTR,
     TPAD |-> TPAD, LPAD |-> LPAD, DPAD |-> DPAD, RPAD |-> RPAD]

\* shapes (H, W, CI, KH, KW, CO, stride, padding)
Shapes ==
    { Shape(2, 2, 32, 1, 1, 8, 1, 1, 0, 0, 0, 0),    \* 32 channels: padded 4 -> 8
      Shape(4, 2, 32, 1, 1, 8, 1, 1, 0, 0, 0, 0),    \* two height tiles
      Shape(2, 4, 32, 1, 1, 8, 1, 1, 0, 0, 0, 0),    \* two width tiles
      Shape(3, 4, 32, 2, 3, 8, 1, 1, 0, 0, 0, 0),    \* a 2x3 kernel
      Shape(2, 2, 32, 1, 1, 16, 1, 1, 0, 0, 0, 0),   \* two channel tiles
      Shape(2, 2, 64, 1, 1, 8, 1, 1, 0, 0, 0, 0),    \* 64 channels: no padding
      Shape(2, 2, 128, 1, 1, 8, 1, 1, 0, 0, 0, 0),   \* tile_ci 8 or 16
      Shape(1, 1, 32, 1, 1, 8, 1, 1, 1, 0, 0, 1),    \* padding top and right
      Shape(4, 2, 32, 2, 1, 8, 2, 1, 1, 0, 0, 0),    \* padding top only
      Shape(2, 2, 32, 2, 1, 8, 1, 1, 1, 0, 0, 0),    \* top only, reads past the buffer
      Shape(3, 2, 32, 1, 1, 8, 2, 1, 0, 0, 0, 0),    \* stride 2 over a 1x1 kernel
      Shape(8, 8, 16, 3, 3, 8, 1, 1, 0, 0, 0, 0),    \* the 16-channel scenario
      Shape(2, 2, 8, 1, 1, 8, 1, 1, 0, 0, 0, 0) }    \* 8 channels

\* the bytes the model lets lie past the end of the data buffer
MemBytes == {0, 255}

\* the largest flat address of data the accumulation can read from row r,
\* column c: past the buffer exactly when it is not below H * W * CI
ReadsPastBuffer(s) ==
    LET ph == s.H + s.TPAD + s.DPAD
        pw == s.W + s.LPAD + s.RPAD
        oh == (ph - s.KH) \div s.HSTR + 1
        ow == (pw - s.KW) \div s.WSTR + 1
        spatial == s.TPAD # 0 /\ s.RPAD # 0
        r == (oh - 1) * s.HSTR + s.KH - 1
        c == (ow - 1) * s.WSTR + s.KW - 1
    IN  ~spatial /\ r * s.W + c >= s.H * s.W

\* mem is drawn only where it can be read
MemOf(s) == IF ReadsPastBuffer(s) THEN MemBytes ELSE {0}

Instance(s, ab, wb, u, fill, m) ==
    [H |-> s.H, W |-> s.W, CI |-> s.CI, KH |-> s.KH, KW |-> s.KW, CO |-> s.CO,
     HSTR |-> s.HSTR, WSTR |-> s.WSTR,
     TPAD |-> s.TPAD, LPAD |-> s.LPAD, DPAD |-> s.DPAD, RPAD |-> s.RPAD,
     ab |-> ab, wb |-> wb, unipolar |-> u, fill |-> fill, mem |-> m]

\* every shape with narrow bit widths, both polarities and mixed inputs
InstancesOf(s) ==
    { Instance(s, b[1], b[2], u, "mix", m) :
         b \in (1..MaxBits) \X (1..MaxBits), u \in BOOLEAN, m \in MemOf(s) }

\* wide bit widths (activation_bits, weight_bits) on the smallest shape, with
\* inputs of the largest value: 32 * 31 * 31 = 30752, 32 * 63 * 31 = 62496
WideBits == {<<5, 5>>, <<6, 5>>}

WideInstances ==
    { Instance(Shape(2, 2, 32, 1, 1, 8, 1, 1, 0, 0, 0, 0), b[1], b[2], u, "max", 0) :
         b \in WideBits, u \in BOOLEAN }

Instances == UNION { InstancesOf(s) : s \in Shapes } \cup WideInstances

(***************************************************************************)
(* Fixed-width integer helpers.                                            *)
(***************************************************************************)
RECURSIVE Pow2(_)
Pow2(n) == IF n = 0 THEN 1 ELSE 2 * Pow2(n - 1)

Bit(x, i) == (x \div Pow2(i)) % 2

\* x modulo 2^16, as the unsigned pattern 0..65535
U16(x) == x % 65536

\* the int16 value of a 16-bit pattern
S16(x) == IF U16(x) >= 32768 THEN U16(x) - 65536 ELSE U16(x)

RECURSIVE SumTo(_, _)
\* sum of f[0] .. f[n-1]
SumTo(f, n) == IF n = 0 THEN 0 ELSE f[n - 1] + SumTo(f, n - 1)

RECURSIVE PopAnd(_, _)
\* tvm.tir.popcount of (x & y) on 16-bit patterns
PopAnd(x, y) ==
    IF x = 0 \/ y = 0 THEN 0
    ELSE (x % 2) * (y % 2) + PopAnd(x \div 2, y \div 2)

\* ~x on a 16-bit pattern
Not16(x) == 65535 - x

\* x << s in a 16-bit type: the low 16 bits of the product
Shl16(x, s) == U16(x * Pow2(s))

(***************************************************************************)
(* The problem instance.  i is a record                                    *)
(*   [H, W, CI, KH, KW, CO, HSTR, WSTR, TPAD, LPAD, DPAD, RPAD,            *)
(*    ab, wb, unipolar, fill, mem]                                         *)
(* with ab = activation_bits, wb = weight_bits, fill the choice of the     *)
(* input tensors and mem the byte found past the end of the data buffer.   *)
(***************************************************************************)

\* The activation tensor data[0, h, w, c], a value in [0, 2^activation_bits).
\* Fill "max" is the all-maximum tensor, "mix" a pattern over every axis.
Data(i, h, w, c) ==
    IF i.fill = "max" THEN Pow2(i.ab) - 1
    ELSE (h + 2 * w + 1 + c + (c \div 8) + (c \div 3)) % Pow2(i.ab)

\* The weight tensor kernel[dh, dw, c, co], a value in [0, 2^weight_bits).
Kernel(i, dh, dw, c, co) ==
    IF i.fill = "max" THEN Pow2(i.wb) - 1
    ELSE (1 + dh + 2 * dw + c + 3 * co + (c \div 4) + (co \div 2)) % Pow2(i.wb)

\* CI_packed before the channel padding
CI_packed0(i) == i.CI \div 8

\* what a correct padding to the next multiple of 8 would add
CiPadDeficit(i) == (8 - (CI_packed0(i) % 8)) % 8

\* CI_PAD: the channel padding the code computes
CI_PAD(i) == IF CI_packed0(i) % 8 # 0 THEN CI_packed0(i) % 8 ELSE 0

\* CI_packed after "CI_packed += CI_PAD": the extent cfg.reduce_axis gets
CI_packed(i) == CI_packed0(i) + CI_PAD(i)

HCAT(i) == i.KH - 1
WCAT(i) == i.KW - 1
PAD_H(i) == i.H + (i.TPAD + i.DPAD)
PAD_W(i) == i.W + (i.LPAD + i.RPAD)
OH(i) == (PAD_H(i) - i.KH) \div i.HSTR + 1
OW(i) == (PAD_W(i) - i.KW) \div i.WSTR + 1
oshape(i) == <<1, OH(i), OW(i), i.CO>>

(***************************************************************************)
(* The configuration space.                                                *)
(***************************************************************************)
\* the inner sizes define_split offers for an axis of extent n: its factors
Factors(n) == {f \in 1..n : n % f = 0}

TileCoFilter(f) == f = 8
TileOhFilter(f) == f >= 2
TileOwFilter(f) == f >= 2
TileCiFilter(f) == f = 8 \/ f = 16

tile_co(i) == {f \in Factors(i.CO) : TileCoFilter(f)}
tile_oh(i) == {f \in Factors(OH(i)) : TileOhFilter(f)}
tile_ow(i) == {f \in Factors(OW(i)) : TileOwFilter(f)}
tile_ci(i) == {f \in Factors(CI_packed(i)) : TileCiFilter(f)}

\* reorder_0 has two candidates: 0 keeps kh outside kw, 1 puts kw outside kh
ReorderCandidates == {0, 1}

\* every complete configuration of the declared space
ConfigSpace(i) ==
    [VC : tile_co(i), VH : tile_oh(i), VW : tile_ow(i), TCI : tile_ci(i),
     RO : ReorderCandidates]

(***************************************************************************)
(* The tensors of the compute graph.                                       *)
(***************************************************************************)
\* A read of the placeholder data[0, r, c, ch].  The generated code addresses
\* the flat buffer: an index past a row lands in the next row, an address past
\* the buffer reads whatever byte lies there (i.mem).
DataRead(i, r, c, ch) ==
    LET addr == (r * i.W + c) * i.CI + ch
    IN  IF addr < i.H * i.W * i.CI
        THEN Data(i, addr \div (i.W * i.CI), (addr \div i.CI) % i.W, addr % i.CI)
        ELSE i.mem

\* bitpack(data, activation_bits, pack_axis=3, bit_axis=3, "uint8"): plane b of
\* the 8 channels 8*cq .. 8*cq+7, the first channel in the highest bit
data_q(i, r, c, b, cq) ==
    SumTo([k \in 0..7 |-> Bit(DataRead(i, r, c, cq * 8 + k), b) * Pow2(7 - k)], 8)

\* bitpack(kernel, weight_bits, pack_axis=2, bit_axis=2, "uint8")
kernel_q(i, dh, dw, b, cq, co) ==
    SumTo([k \in 0..7 |-> Bit(Kernel(i, dh, dw, cq * 8 + k, co), b) * Pow2(7 - k)], 8)

\* the channel extent of kernel_vec after the conditional pad
KernelVecCI(i) ==
    IF CI_packed0(i) % 8 # 0 /\ CI_PAD(i) # 0
    THEN CI_packed0(i) + CI_PAD(i) ELSE CI_packed0(i)

\* kernel_vec[co, dh, dw, kb, vc, ci], zero in the padded channels
kernel_vec(i, c, co, dh, dw, kb, vc, ci) ==
    IF ci < CI_packed0(i) THEN kernel_q(i, dh, dw, kb, ci, co * c.VC + vc) ELSE 0

\* which of the three branches builds data_pad
PadBranch(i) ==
    IF i.TPAD # 0 /\ i.RPAD # 0 THEN "spatial"
    ELSE IF CI_PAD(i) # 0 THEN "channel" ELSE "none"

\* the shape of data_pad: (N, rows, columns, IB, channels)
DataPadShape(i) ==
    CASE PadBranch(i) = "spatial" ->
            <<1, i.H + i.TPAD + i.DPAD, i.W + i.LPAD + i.RPAD, i.ab,
              CI_packed0(i) + CI_PAD(i)>>
      [] PadBranch(i) = "channel" ->
            <<1, i.H, i.W, i.ab, CI_packed0(i) + CI_PAD(i)>>
      [] OTHER -> <<1, i.H, i.W, i.ab, CI_packed0(i)>>

\* data_pad[0, r, c, b, ci].  pad() guards only the axes it pads.
data_pad(i, r, c, b, ci) ==
    CASE PadBranch(i) = "spatial" ->
            IF /\ r >= i.TPAD /\ r < i.H + i.TPAD
               /\ c >= i.LPAD /\ c < i.W + i.LPAD
               /\ ci < CI_packed0(i)
            THEN data_q(i, r - i.TPAD, c - i.LPAD, b, ci) ELSE 0
      [] PadBranch(i) = "channel" ->
            IF ci < CI_packed0(i) THEN data_q(i, r, c, b, ci) ELSE 0
      [] OTHER -> data_q(i, r, c, b, ci)

\* dvshape: the declared shape of data_vec
dvshape(i, c) ==
    <<1, PAD_H(i) \div (c.VH * i.HSTR), PAD_W(i) \div (c.VW * i.WSTR),
      c.VH * i.HSTR + HCAT(i), c.VW * i.WSTR + WCAT(i), i.ab, KernelVecCI(i)>>

\* ovshape: the shape of conv_vec
ovshape(i, c) ==
    <<1, OH(i) \div c.VH, OW(i) \div c.VW, i.CO \div c.VC, c.VH, c.VW, c.VC>>

\* the data_pad row and column data_vec[0, h, w, vh, vw, b, ci] is read from
DataVecRow(i, c, h, vh) == h * c.VH * i.HSTR + vh
DataVecCol(i, c, w, vw) == w * c.VW * i.WSTR + vw

data_vec(i, c, h, w, vh, vw, b, ci) ==
    data_pad(i, DataVecRow(i, c, h, vh), DataVecCol(i, c, w, vw), b, ci)

\* the in-tile offsets the accumulation uses for output (vh, vw) and tap (dh, dw)
ConvRowOff(i, vh, dh) == vh * i.HSTR + dh
ConvColOff(i, vw, dw) == vw * i.WSTR + dw

\* the extents of the region of data_vec the accumulation reads, which is the
\* region the data_vec stage materializes: (tiles h, tiles w, rows, columns)
DataVecRegion(i, c) ==
    <<OH(i) \div c.VH, OW(i) \div c.VW,
      (c.VH - 1) * i.HSTR + i.KH, (c.VW - 1) * i.WSTR + i.KW>>

\* flat position of data_vec[0, h, w, vh, vw, b, ci] in its buffer
DataVecIdx(i, c, h, w, vh, vw, b, ci) ==
    LET g == DataVecRegion(i, c)
    IN  ((((h * g[2] + w) * g[3] + vh) * g[4] + vw) * i.ab + b) * KernelVecCI(i) + ci

\* the data_vec buffer: every element of the region, computed from data_pad
DataVecBuffer(i, c) ==
    LET g == DataVecRegion(i, c)
        n == KernelVecCI(i)
    IN  [e \in 0 .. g[1] * g[2] * g[3] * g[4] * i.ab * n - 1 |->
            data_vec(i, c, e \div (g[2] * g[3] * g[4] * i.ab * n),
                     (e \div (g[3] * g[4] * i.ab * n)) % g[2],
                     (e \div (g[4] * i.ab * n)) % g[3],
                     (e \div (i.ab * n)) % g[4],
                     (e \div n) % i.ab,
                     e % n)]

\* flat position of kernel_vec[co, dh, dw, kb, vc, ci] in its buffer
KernelVecIdx(i, c, co, dh, dw, kb, vc, ci) ==
    ((((co * i.KH + dh) * i.KW + dw) * i.wb + kb) * c.VC + vc) * KernelVecCI(i) + ci

\* the kernel_vec buffer
KernelVecBuffer(i, c) ==
    LET n == KernelVecCI(i)
    IN  [e \in 0 .. (i.CO \div c.VC) * i.KH * i.KW * i.wb * c.VC * n - 1 |->
            kernel_vec(i, c, e \div (i.KH * i.KW * i.wb * c.VC * n),
                       (e \div (i.KW * i.wb * c.VC * n)) % i.KH,
                       (e \div (i.wb * c.VC * n)) % i.KW,
                       (e \div (c.VC * n)) % i.wb,
                       (e \div n) % c.VC,
                       e % n)]

\* _bipolar_conv without the astype("uint16"): the shift stays in uint8
bipolar_conv_uint8(kv, dv, sh) ==
    LET pop == PopAnd(kv, dv)
    IN  [v |-> (pop * Pow2(sh)) % 256, x |-> pop * Pow2(sh)]

\* The summand of _bipolar_conv for kernel byte kv, data byte dv and shift
\* sh = kb + ib: v is the uint16 the code computes, x the same expression in
\* unbounded integers.
bipolar_conv(kv, dv, sh) ==
    LET pop == PopAnd(kv, dv)
    IN  [v |-> Shl16(pop, sh), x |-> pop * Pow2(sh)]

\* The summand of _unipolar_conv: v is the int16 the code computes (as its
\* 16-bit pattern), x the same expression in unbounded integers.
unipolar_conv(kv, dv, sh) ==
    LET pop == PopAnd(kv, dv) - PopAnd(Not16(kv), dv)
    IN  [v |-> Shl16(U16(pop), sh), x |-> pop * Pow2(sh)]

\* the summand of the conv_vec the polarity flag selects
ConvTerm(i, kv, dv, sh) ==
    IF i.unipolar THEN unipolar_conv(kv, dv, sh) ELSE bipolar_conv(kv, dv, sh)

\* the value of a 16-bit pattern in the accumulator's type:
\* uint16 for _bipolar_conv, int16 for _unipolar_conv
AccVal(i, p) == IF i.unipolar THEN S16(p) ELSE U16(p)

\* whether an exact value is representable in the accumulator's type
InAccType(i, x) ==
    IF i.unipolar THEN x >= -32768 /\ x <= 32767 ELSE x >= 0 /\ x <= 65535

(***************************************************************************)
(* The loop nest of the schedule.                                          *)
(* s[last]: n, oh, ow, co, vh, vw, vc with oh parallel and vc vectorized;  *)
(* conv_out is computed at co, its own loops in the order of reorder_0:    *)
(*   vh, vw, (kh, kw | kw, kh), ci_o, kb, ib, vc, ci_i.                    *)
(***************************************************************************)
\* the parallel iterations: the outer height tiles
Threads(i, c) == 0 .. (OH(i) \div c.VH) - 1

\* tile_ci not applied: the outer loop ci_o runs once
CiOuterOnce(i, c) == 1

\* extent of ci_o after tile_ci is applied to the reduction axis ci
CiOuter(i, c) == KernelVecCI(i) \div c.TCI

\* the (vh, vw) iterations of conv_out's two outer loops in one tile
NumAccSteps(c) == c.VH * c.VW

\* the iterations of the reduction loops r1, r2, ci_o, kb, ib for one (vh, vw)
NumRedSteps(i, c) == i.KH * i.KW * CiOuter(i, c) * i.wb * i.ab

\* the (vh, vw) vector stores of one tile
NumWriteSteps(c) == c.VH * c.VW

\* the k-th iteration of the reduction loops r1, r2, ci_o, kb, ib, where
\* (r1, r2) is (kh, kw) for reorder candidate 0 and (kw, kh) for candidate 1
LoopIndex(i, c, k) ==
    LET e2 == IF c.RO = 0 THEN i.KW ELSE i.KH
        k1 == k \div i.ab
        k2 == k1 \div i.wb
        k3 == k2 \div CiOuter(i, c)
        r2 == k3 % e2
        r1 == k3 \div e2
    IN  [dh |-> IF c.RO = 0 THEN r1 ELSE r2,
         dw |-> IF c.RO = 0 THEN r2 ELSE r1,
         cio |-> k2 % CiOuter(i, c), kb |-> k1 % i.wb, ib |-> k % i.ab]

\* position of conv_vec[.., vh, vw, vc] in a thread's tile buffer
AccIdx(c, vh, vw, vc) == (vh * c.VW + vw) * c.VC + vc

\* the output row without the tile height: oh + vh
OutRowNoTile(c, oh, vh) == oh + vh

\* conv[0, h, w, co] reads conv_vec[0, h/VH, w/VW, co/VC, h%VH, w%VW, co%VC]:
\* the output row, column and channel of tile (oh, ow, co), element (vh, vw, vc)
OutRow(c, oh, vh) == oh * c.VH + vh
OutCol(c, ow, vw) == ow * c.VW + vw
OutChan(c, co, vc) == co * c.VC + vc

\* position of conv[0, h, w, co] in out
OutIdx(i, h, w, co) == (h * OW(i) + w) * i.CO + co

RECURSIVE AccumCi(_, _, _, _, _, _)
\* The ci_i loop: starting from pattern p0, add the summands of ci_i = 0..n-1,
\* read at kernel_vec position kb0 + ci_i and data_vec position db0 + ci_i.
\* Gives the new pattern p and whether a summand or a partial sum left the
\* accumulator's type (o).
AccumCi(i, kb0, db0, sh, n, p0) ==
    IF n = 0 THEN [p |-> p0, o |-> FALSE]
    ELSE LET prev == AccumCi(i, kb0, db0, sh, n - 1, p0)
             term == ConvTerm(i, kvec[kb0 + (n - 1)], dvec[db0 + (n - 1)], sh)
         IN  [p |-> U16(prev.p + term.v),
              o |-> \/ prev.o
                    \/ AccVal(i, term.v) # term.x
                    \/ ~InAccType(i, AccVal(i, prev.p) + term.x)]

RECURSIVE AccumLane(_, _, _, _, _, _, _)
\* The accumulator conv_vec[0, oh, ow, co, vh, vw, vc] of thread t = oh after
\* the first n iterations of the reduction loops r1, r2, ci_o, kb, ib, each
\* with its ci_i loop (the vc loop between ib and ci_i only interleaves the
\* lanes, each of which has an accumulator of its own).  te.sum starts from 0.
AccumLane(i, c, t, vh, vw, vc, n) ==
    IF n = 0 THEN [p |-> 0, o |-> FALSE]
    ELSE LET prev == AccumLane(i, c, t, vh, vw, vc, n - 1)
             x == LoopIndex(i, c, n - 1)
             r == AccumCi(i,
                    KernelVecIdx(i, c, th[t].co, x.dh, x.dw, x.kb, vc, x.cio * c.TCI),
                    DataVecIdx(i, c, t, th[t].ow, ConvRowOff(i, vh, x.dh),
                               ConvColOff(i, vw, x.dw), x.ib, x.cio * c.TCI),
                    x.kb + x.ib, c.TCI, prev.p)
         IN  IF prev.o THEN [p |-> r.p, o |-> TRUE] ELSE r

RECURSIVE AccumLanes(_, _, _, _, _, _)
\* the lanes vc = 0 .. n-1 of (vh, vw) after the whole reduction, as a sequence
AccumLanes(i, c, t, vh, vw, n) ==
    IF n = 0 THEN <<>>
    ELSE Append(AccumLanes(i, c, t, vh, vw, n - 1),
                AccumLane(i, c, t, vh, vw, n - 1, NumRedSteps(i, c)))

\* conv_out attached below vh, vw: the stores start after one (vh, vw)
AccCompleteFirst(c, k) == k >= 1

\* whether the reduction of the tile is complete: conv_out is attached at co,
\* so the stores of the tile start only after its last accumulation step
AccComplete(c, k) == k = NumAccSteps(c)

\* the output narrowing: conv_vec[...].astype("int16")
Narrow(i, p) == S16(p)

(***************************************************************************)
(* Actions.                                                                *)
(***************************************************************************)
\* the compute is defined and a configuration of the space is resolved;
\* the schedule is built and the parallel loop over oh starts
Compute ==
    /\ pc = "new"
    /\ ConfigSpace(inst) # {}
    /\ \E c \in ConfigSpace(inst) :
          /\ cfg' = c
          /\ th' = [t \in Threads(inst, c) |-> [ow |-> 0, co |-> 0, ph |-> "acc", k |-> 0, red |-> 0]]
          /\ kvec' = KernelVecBuffer(inst, c)
          /\ dvec' = DataVecBuffer(inst, c)
          /\ acc' = [t \in Threads(inst, c) |->
                        [e \in 0 .. c.VH * c.VW * c.VC - 1 |-> 0]]
          /\ out' = [e \in 0 .. OH(inst) * OW(inst) * inst.CO - 1 |-> None]
          /\ nwr' = [e \in 0 .. OH(inst) * OW(inst) * inst.CO - 1 |-> {}]
    /\ pc' = "run"
    /\ UNCHANGED <<inst, ovf>>

\* no tile factor passes a filter: there is no configuration to build with
NoConfig ==
    /\ pc = "new"
    /\ ConfigSpace(inst) = {}
    /\ pc' = "nocfg"
    /\ UNCHANGED <<inst, cfg, th, kvec, dvec, acc, out, nwr, ovf>>

\* one (vh, vw) iteration of conv_out in thread t: the reduction loops
\* kh, kw, ci_o, kb, ib, vc, ci_i into the VC accumulators of (vh, vw)
AccStep(t) ==
    /\ pc = "run"
    /\ th[t].ph = "acc"
    /\ LET vh == th[t].k \div cfg.VW
           vw == th[t].k % cfg.VW
       IN  \E r \in {AccumLanes(inst, cfg, t, vh, vw, cfg.VC)} :
              /\ acc' = [acc EXCEPT ![t] =
                           [e \in DOMAIN acc[t] |->
                               IF e \div cfg.VC = vh * cfg.VW + vw
                               THEN r[(e % cfg.VC) + 1].p ELSE acc[t][e]]]
              /\ ovf' = (ovf \/ \E vc \in 1 .. cfg.VC : r[vc].o)
    /\ th' = [th EXCEPT ![t] =
                IF AccComplete(cfg, th[t].k + 1)
                THEN [@ EXCEPT !.ph = "write", !.k = 0, !.red = @ + 1]
                ELSE [@ EXCEPT !.k = @ + 1, !.red = @ + 1]]
    /\ UNCHANGED <<inst, pc, cfg, kvec, dvec, out, nwr>>

\* one vector store of s[last] in thread t: the VC lanes of one (vh, vw);
\* after the last store of the tile the thread moves to the next co, then ow
WriteStep(t) ==
    /\ pc = "run"
    /\ th[t].ph = "write"
    /\ LET vh == th[t].k \div cfg.VW
           vw == th[t].k % cfg.VW
           h == OutRow(cfg, t, vh)
           w == OutCol(cfg, th[t].ow, vw)
           lanes == {OutIdx(inst, h, w, OutChan(cfg, th[t].co, vc)) : vc \in 0 .. cfg.VC - 1}
           val(e) == acc[t][AccIdx(cfg, vh, vw, (e % inst.CO) % cfg.VC)]
       IN  /\ out' = [e \in DOMAIN out |->
                        IF e \in lanes THEN Narrow(inst, val(e)) ELSE out[e]]
           /\ nwr' = [e \in DOMAIN nwr |->
                        IF e \in lanes
                        THEN nwr[e] \cup {<<t, th[t].ow, th[t].co, vh, vw, (e % inst.CO) % cfg.VC>>}
                        ELSE nwr[e]]
           /\ ovf' = (ovf \/ \E e \in lanes : Narrow(inst, val(e)) # AccVal(inst, val(e)))
    /\ th' = [th EXCEPT ![t] =
                IF th[t].k + 1 < NumWriteSteps(cfg)
                THEN [@ EXCEPT !.k = @ + 1]
                ELSE IF th[t].co + 1 < inst.CO \div cfg.VC
                THEN [@ EXCEPT !.ph = "acc", !.k = 0, !.red = 0, !.co = @ + 1]
                ELSE IF th[t].ow + 1 < OW(inst) \div cfg.VW
                THEN [@ EXCEPT !.ph = "acc", !.k = 0, !.red = 0, !.co = 0, !.ow = @ + 1]
                ELSE [@ EXCEPT !.ph = "done", !.k = 0]]
    /\ UNCHANGED <<inst, pc, cfg, kvec, dvec, acc>>

\* every parallel iteration has finished: the kernel returns
Finish ==
    /\ pc = "run"
    /\ \A t \in DOMAIN th : th[t].ph = "done"
    /\ pc' = "done"
    /\ UNCHANGED <<inst, cfg, th, kvec, dvec, acc, out, nwr, ovf>>

Init ==
    /\ inst \in Instances
    /\ pc = "new"
    /\ cfg = None
    /\ th = <<>>
    /\ kvec = <<>>
    /\ dvec = <<>>
    /\ acc = <<>>
    /\ out = <<>>
    /\ nwr = <<>>
    /\ ovf = FALSE

Next ==
    \/ Compute
    \/ NoConfig
    \/ \E t \in DOMAIN th : AccStep(t)
    \/ \E t \in DOMAIN th : WriteStep(t)
    \/ Finish

Spec == Init /\ [][Next]_vars

(***************************************************************************)
(* Reference values.                                                       *)
(***************************************************************************)
\* the activation of the zero-padded input at padded row r, column c
PaddedData(i, r, c, ch) ==
    IF /\ r >= i.TPAD /\ r < i.H + i.TPAD
       /\ c >= i.LPAD /\ c < i.W + i.LPAD
    THEN Data(i, r - i.TPAD, c - i.LPAD, ch) ELSE 0

\* the activation bits the accumulation is given for data_pad row r, column c:
\* the zero-padded input when pad() is applied to the spatial axes, else the
\* low activation_bits bits of whatever the flat buffer holds at (r, c)
ReadData(i, r, c, ch) ==
    IF PadBranch(i) = "spatial" THEN PaddedData(i, r, c, ch)
    ELSE DataRead(i, r, c, ch) % Pow2(i.ab)

\* the reference weight of get_ref_data: the value itself, or for unipolar
\* 1-bit weights +1 for 1 and -1 for 0
RefWeight(i, k) == IF i.unipolar THEN (IF k = 1 THEN 1 ELSE -1) ELSE k

\* the weight the bit-serial sum gives kernel value k: every bit plane kb
\* counts 2^kb for a set bit and, when unipolar, -2^kb for a clear one
SerialWeight(i, k) == IF i.unipolar THEN 2 * k - (Pow2(i.wb) - 1) ELSE k

\* the ordinary integer convolution at output (h, w, co) over the KH x KW x CI
\* receptive field of the zero-padded input, in unbounded integers
RefConv(i, h, w, co) ==
    SumTo([dh \in 0 .. i.KH - 1 |->
      SumTo([dw \in 0 .. i.KW - 1 |->
        SumTo([cq \in 0 .. CI_packed0(i) - 1 |->
          SumTo([k \in 0 .. 7 |->
                   RefWeight(i, Kernel(i, dh, dw, cq * 8 + k, co))
                   * PaddedData(i, h * i.HSTR + dh, w * i.WSTR + dw, cq * 8 + k)],
                8)], CI_packed0(i))], i.KW)], i.KH)

\* the sum of weight * activation over what the accumulation reads, in
\* unbounded integers and in one fixed order: no configuration enters it
ReadSum(i, h, w, co) ==
    SumTo([dh \in 0 .. i.KH - 1 |->
      SumTo([dw \in 0 .. i.KW - 1 |->
        SumTo([cq \in 0 .. CI_packed0(i) - 1 |->
          SumTo([k \in 0 .. 7 |->
                   SerialWeight(i, Kernel(i, dh, dw, cq * 8 + k, co))
                   * ReadData(i, h * i.HSTR + dh, w * i.WSTR + dw, cq * 8 + k)],
                8)], CI_packed0(i))], i.KW)], i.KH)

\* the largest magnitude a sum of the instance can reach
SumBound(i) == i.KH * i.KW * i.CI * (Pow2(i.ab) - 1) * (Pow2(i.wb) - 1)

\* the int16 range
FitsInt16(x) == x >= -32768 /\ x <= 32767

\* the output elements of the tile (ow, co) of parallel iteration t
TileElems(i, c, t, ow, co) ==
    { OutIdx(i, OutRow(c, t, vh), OutCol(c, ow, vw), OutChan(c, co, vc)) :
        vh \in 0 .. c.VH - 1, vw \in 0 .. c.VW - 1, vc \in 0 .. c.VC - 1 }

\* the graph is built and the loop nest runs or has run
Built == pc \in {"run", "done"}

(***************************************************************************)
(* Properties.                                                             *)
(***************************************************************************)
\* C1: bipolar correctness.  With unipolar = False every element
\* conv[0, h, w, co] the kernel returns equals the ordinary integer
\* convolution of the unpacked activations and weights over the KH x KW x CI
\* receptive field of the zero-padded input, for every configuration.  It is
\* stated for the instances whose sums fit the int16 output.
C1_BipolarCorrect ==
    (pc = "done" /\ ~inst.unipolar /\ FitsInt16(SumBound(inst))) =>
        \A h \in 0 .. OH(inst) - 1, w \in 0 .. OW(inst) - 1, co \in 0 .. inst.CO - 1 :
            out[OutIdx(inst, h, w, co)] = RefConv(inst, h, w, co)

\* C2: unipolar correctness.  With unipolar = True and 1-bit weights every
\* output element equals the signed dot product over the receptive field in
\* which weight 1 counts +1 and weight 0 counts -1.
C2_UnipolarCorrect ==
    (pc = "done" /\ inst.unipolar /\ inst.wb = 1) =>
        \A h \in 0 .. OH(inst) - 1, w \in 0 .. OW(inst) - 1, co \in 0 .. inst.CO - 1 :
            out[OutIdx(inst, h, w, co)] = RefConv(inst, h, w, co)

\* C3: configuration invariance.  For a fixed instance every configuration of
\* the declared space (tile_oh, tile_ow, tile_ci, reorder_0) returns the same
\* value for every output element: the value is the 16-bit wrap of a sum that
\* depends on the instance only.
C3_ConfigInvariant ==
    pc = "done" =>
        \A h \in 0 .. OH(inst) - 1, w \in 0 .. OW(inst) - 1, co \in 0 .. inst.CO - 1 :
            out[OutIdx(inst, h, w, co)] = S16(ReadSum(inst, h, w, co))

\* the kernel returned under the second reorder candidate on a 2x3 kernel,
\* and under the narrower of two reduction tiles, with outputs that differ
C3_Witness ==
    /\ pc = "done"
    /\ \/ cfg.RO = 1 /\ inst.KH = 2 /\ inst.KW = 3
       \/ cfg.TCI = 8 /\ KernelVecCI(inst) = 16
    /\ \E e1 \in DOMAIN out, e2 \in DOMAIN out : out[e1] # out[e2]

\* C4: channel padding to a multiple of 8.  Whenever the packed input-channel
\* count is not a multiple of 8, CI_PAD is the deficit to the next multiple
\* of 8, CI_packed + CI_PAD is a multiple of 8, and the kernel tensor and the
\* activation tensor are both extended by that CI_PAD along the channel axis.
C4_ChannelPadMultipleOf8 ==
    CI_packed0(inst) % 8 # 0 =>
        /\ CI_PAD(inst) = CiPadDeficit(inst)
        /\ (CI_packed0(inst) + CI_PAD(inst)) % 8 = 0
        /\ KernelVecCI(inst) = CI_packed0(inst) + CI_PAD(inst)
        /\ DataPadShape(inst)[5] = CI_packed0(inst) + CI_PAD(inst)

\* C5: spatial padding coverage.  For every padding tuple, also one with only
\* some sides nonzero, data_pad has the spatial extents H + TPAD + DPAD and
\* W + LPAD + RPAD, so every row and column the accumulation reads through
\* data_vec is a position of data_pad.
C5_SpatialPadCovers ==
    /\ DataPadShape(inst)[2] = PAD_H(inst)
    /\ DataPadShape(inst)[3] = PAD_W(inst)
    /\ Built =>
         \A h \in 0 .. (OH(inst) \div cfg.VH) - 1, vh \in 0 .. cfg.VH - 1,
            dh \in 0 .. inst.KH - 1 :
              DataVecRow(inst, cfg, h, ConvRowOff(inst, vh, dh)) < DataPadShape(inst)[2]

\* C6: parallel iterations write disjoint regions.  No output element is
\* written by two iterations, the iteration that writes row h is the one of
\* the parallel axis oh = h \div VH, and when the kernel returns every output
\* element has been written by exactly one (oh, ow, co, vh, vw, vc) iteration.
C6_DisjointWrites ==
    Built =>
        \A e \in DOMAIN nwr :
            /\ Cardinality(nwr[e]) <= 1
            /\ \A x \in nwr[e] : x[1] = (e \div (OW(inst) * inst.CO)) \div cfg.VH
            /\ pc = "done" => Cardinality(nwr[e]) = 1

\* two parallel iterations have run to the end, in some interleaving
C6_Witness ==
    /\ pc = "done"
    /\ Cardinality(DOMAIN th) = 2
    /\ \E e1 \in DOMAIN nwr, e2 \in DOMAIN nwr :
          \E x \in nwr[e1], y \in nwr[e2] : x[1] = 0 /\ y[1] = 1

\* C7: accumulate before write.  For every (oh, ow, co) tile the stores of the
\* tile start only after all VH * VW reductions of the tile are complete, no
\* element of the tile is written while it accumulates, and the accumulation
\* of the next channel tile begins only after the stores of the tile before.
C7_AccumulateBeforeWrite ==
    pc = "run" =>
        \A t \in DOMAIN th :
            /\ th[t].ph = "write" => th[t].red = cfg.VH * cfg.VW
            /\ th[t].ph = "acc" =>
                 \A e \in TileElems(inst, cfg, t, th[t].ow, th[t].co) : nwr[e] = {}
            /\ (th[t].ph = "acc" /\ th[t].co > 0) =>
                 \A e \in TileElems(inst, cfg, t, th[t].ow, th[t].co - 1) : nwr[e] # {}

\* the second channel tile of an iteration is being stored, the first is done
C7_Witness ==
    /\ pc = "run"
    /\ \E t \in DOMAIN th :
          /\ th[t].ph = "write" /\ th[t].co = 1 /\ th[t].k >= 1
          /\ \A e \in TileElems(inst, cfg, t, th[t].ow, 0) : nwr[e] # {}

\* C8 as stated: for every accepted instance no summand, partial sum or final
\* cast leaves its 16-bit type.
C8_NoOverflow == ~ovf

\* C8 amended: when KH * KW * CI * (2^activation_bits - 1) * (2^weight_bits - 1)
\* fits int16, no summand, partial sum or final cast leaves its 16-bit type,
\* and the stored result is the unbounded-integer sum (for the all-maximum
\* inputs, that product itself).
C8_NoOverflowWithinBound ==
    FitsInt16(SumBound(inst)) =>
        /\ ~ovf
        /\ (pc = "done" /\ inst.fill = "max") =>
              \A e \in DOMAIN out : out[e] = SumBound(inst)

\* the kernel returned on 5-bit all-maximum inputs: 32 * 31 * 31, no overflow
C8_Witness ==
    /\ pc = "done"
    /\ inst.ab = 5 /\ inst.wb = 5 /\ inst.fill = "max"
    /\ FitsInt16(SumBound(inst))
    /\ ~ovf
    /\ \A e \in DOMAIN out : out[e] = 30752

\* C9: data_vec bounds.  Every index the accumulation uses to read data_vec,
\* tile (h, w) with h < OH \div VH and w < OW \div VW and in-tile offsets
\* (vh*HSTR + dh, vw*WSTR + dw), lies inside the declared shape dvshape.
C9_DataVecInDeclaredShape ==
    Built =>
        /\ OH(inst) \div cfg.VH <= dvshape(inst, cfg)[2]
        /\ OW(inst) \div cfg.VW <= dvshape(inst, cfg)[3]
        /\ \A vh \in 0 .. cfg.VH - 1, dh \in 0 .. inst.KH - 1 :
              ConvRowOff(inst, vh, dh) < dvshape(inst, cfg)[4]
        /\ \A vw \in 0 .. cfg.VW - 1, dw \in 0 .. inst.KW - 1 :
              ConvColOff(inst, vw, dw) < dvshape(inst, cfg)[5]

\* C10: reduction-tile feasibility.  For every instance, the 16-channel
\* scenario included, the tile_ci space is non-empty and a complete
\* configuration passes all four split filters.
C10_TileCiFeasible ==
    /\ tile_ci(inst) # {}
    /\ ConfigSpace(inst) # {}
    /\ pc # "nocfg"

====
